---- MODULE Spec2Model ----
(***************************************************************************)
(* Conway's Game of Life: the world model (a list of cells over the        *)
(* unbounded integer plane), the query functions getCell and               *)
(* getCellNeighbors, and the tick transition function, driven by the       *)
(* next() callback of useGameOfLife; the two versions of the useGameOfLife *)
(* hook with their tick timers; and the pattern construction helpers       *)
(* translate, mirror, rotate and compose.                                  *)
(***************************************************************************)
EXTENDS Integers, Sequences, FiniteSets, TLC

VARIABLES
    initial,       \* the cell list the hook was constructed with
    world,         \* the committed world state
    currentWorld,  \* the argument of the latest next() call
    calls,         \* next() calls since the world was last (re)initialised
    isRunning,     \* the committed isRunning state
    timers,        \* pending setTimeout callbacks, oldest first
    op,            \* the latest operation, and whether its cleanup cleared a timer
    call,          \* the latest pattern helper call and its arguments
    ret            \* what that call returned, or that it threw

vars == <<initial, world, currentWorld, calls, isRunning, timers, op, call, ret>>

----------------------------------------------------------------------------
(* Bounds of the model.                                                    *)

\* longest arbitrary initial cell list
MaxCells == 3
\* width of the two-row strips of living cells used as initial patterns
DenseW == 3
\* number of next() calls explored from an arbitrary initial list
MaxTicks == 3
\* the named patterns (blinker2, glider) are run for 4 * MaxPeriods calls
MaxPeriods == 2
\* most patterns handed to one compose call
MaxPatterns == 2
\* most pending timers of the hook that never clears them
MaxTimers == 2
\* centres, offsets and rotated locations have coordinates in -MaxOffset..MaxOffset
MaxOffset == 1

----------------------------------------------------------------------------
(* Cells and worlds.                                                       *)

Loc(x, y) == [x |-> x, y |-> y]

Origin == Loc(0, 0)

isAlive(cell) == cell.state = "alive"

isDead(cell) == ~isAlive(cell)

kill(cell) == [cell EXCEPT !.state = "dead"]

vivifyForgetsState(cell) == cell

vivify(cell) == [cell EXCEPT !.state = "alive"]

isCellAtLocationXOnly(cell, location) == cell.location.x = location.x

isCellAtLocation(cell, location) ==
    cell.location.x = location.x /\ cell.location.y = location.y

\* Array.prototype.find: the first element satisfying the test, else the
\* synthetic dead cell of the ?? operand.
getCell(w, location) ==
    LET hits == {i \in 1..Len(w.cells) : isCellAtLocation(w.cells[i], location)}
    IN  IF hits = {}
        THEN [location |-> location, state |-> "dead"]
        ELSE w.cells[CHOOSE i \in hits : \A j \in hits : i <= j]

neighborLocationsDropsWest(x, y) ==
    << Loc(x - 1, y - 1), Loc(x, y - 1), Loc(x + 1, y - 1),
       Loc(x + 1, y),     Loc(x + 1, y),
       Loc(x - 1, y + 1), Loc(x, y + 1), Loc(x + 1, y + 1) >>

neighborLocations(x, y) ==
    << Loc(x - 1, y - 1), Loc(x, y - 1), Loc(x + 1, y - 1),
       Loc(x - 1, y),     Loc(x + 1, y),
       Loc(x - 1, y + 1), Loc(x, y + 1), Loc(x + 1, y + 1) >>

getCellNeighbors(w, cell) ==
    LET locs == neighborLocations(cell.location.x, cell.location.y)
    IN  [i \in 1..Len(locs) |-> getCell(w, locs[i])]

getLivingCellNeighbors(w, cell) == SelectSeq(getCellNeighbors(w, cell), isAlive)

getDeadCellNeighbors(w, cell) == SelectSeq(getCellNeighbors(w, cell), isDead)

getNextTickCellSurvivesOnTwoOnly(w, cell) ==
    LET numLivingNeighbors == Len(getLivingCellNeighbors(w, cell))
    IN  IF isAlive(cell)
        THEN IF numLivingNeighbors = 2 THEN cell ELSE kill(cell)
        ELSE IF numLivingNeighbors = 3 THEN vivify(cell) ELSE cell

getNextTickCellNeverKills(w, cell) ==
    LET numLivingNeighbors == Len(getLivingCellNeighbors(w, cell))
    IN  IF isAlive(cell)
        THEN cell
        ELSE IF numLivingNeighbors = 3 THEN vivify(cell) ELSE cell

getNextTickCellBirthOnThreeOrMore(w, cell) ==
    LET numLivingNeighbors == Len(getLivingCellNeighbors(w, cell))
    IN  IF isAlive(cell)
        THEN IF numLivingNeighbors \in {2, 3} THEN cell ELSE kill(cell)
        ELSE IF numLivingNeighbors >= 3 THEN vivify(cell) ELSE cell

getNextTickCell(w, cell) ==
    LET numLivingNeighbors == Len(getLivingCellNeighbors(w, cell))
    IN  IF isAlive(cell)
        THEN IF numLivingNeighbors \in {2, 3} THEN cell ELSE kill(cell)
        ELSE IF numLivingNeighbors = 3 THEN vivify(cell) ELSE cell

\* The Map key of uniqueCells: the template string `${x}/${y}`.
locationKey(location) == ToString(location.x) \o "/" \o ToString(location.y)

\* Map.prototype.set: a key already present keeps its position and takes the
\* new value; a new key is appended.
MapSet(index, key, value) ==
    IF \E i \in 1..Len(index) : index[i].key = key
    THEN [i \in 1..Len(index) |->
            IF index[i].key = key THEN [key |-> key, value |-> value] ELSE index[i]]
    ELSE Append(index, [key |-> key, value |-> value])

\* the Map after cells.forEach has set the first n cells
RECURSIVE indexOf(_, _)
indexOf(cells, n) ==
    IF n = 0
    THEN << >>
    ELSE MapSet(indexOf(cells, n - 1), locationKey(cells[n].location), cells[n])

uniqueCellsKeepsAll(cells) == cells

\* Object.values(Object.fromEntries(index)): no key is an array index, so the
\* values come in the Map's insertion order.
uniqueCells(cells) ==
    LET index == indexOf(cells, Len(cells))
    IN  [i \in 1..Len(index) |-> index[i].value]

getLivingCells(w) == SelectSeq(w.cells, isAlive)

\* the first n lists concatenated
RECURSIVE concat(_, _)
concat(lists, n) ==
    IF n = 0 THEN << >> ELSE concat(lists, n - 1) \o lists[n]

flatten(lists) == concat(lists, Len(lists))

getDeadNeighborsOfLivingCells(w) ==
    LET living == SelectSeq(w.cells, isAlive)
    IN  uniqueCells(flatten([i \in 1..Len(living) |-> getDeadCellNeighbors(w, living[i])]))

tickCandidates(w) == getLivingCells(w) \o getDeadNeighborsOfLivingCells(w)

tickKeepsTime(w) ==
    LET candidates == tickCandidates(w)
    IN  [time  |-> w.time,
         cells |-> [i \in 1..Len(candidates) |-> getNextTickCell(w, candidates[i])]]

tickSkipsEmptyWorld(w) ==
    LET candidates == tickCandidates(w)
    IN  IF getLivingCells(w) = << >>
        THEN w
        ELSE [time  |-> w.time + 1,
              cells |-> [i \in 1..Len(candidates) |-> getNextTickCell(w, candidates[i])]]

tick(w) ==
    LET candidates == tickCandidates(w)
    IN  [time  |-> w.time + 1,
         cells |-> [i \in 1..Len(candidates) |-> getNextTickCell(w, candidates[i])]]

----------------------------------------------------------------------------
(* Patterns of the source.                                                 *)

Alive(x, y) == [location |-> Loc(x, y), state |-> "alive"]

first == << Alive(0, 0), Alive(1, 0), Alive(1, 1), Alive(2, -1) >>

blinker2(center) ==
    << Alive(center.x - 1, center.y), Alive(center.x, center.y),
       Alive(center.x + 1, center.y) >>

glider(center) ==
    << Alive(center.x - 1, center.y), Alive(center.x, center.y),
       Alive(center.x + 1, center.y), Alive(center.x + 1, center.y + 1),
       Alive(center.x, center.y + 2) >>

----------------------------------------------------------------------------
(* Pattern construction helpers.  A pattern is modelled by the cell list   *)
(* pattern() it yields at the default centre, which is all the helpers     *)
(* read of it.  A call returns Returned(v) or Threw.                       *)

Returned(v) == [threw |-> FALSE, value |-> v]

Threw == [threw |-> TRUE, value |-> << >>]

translate(pattern, relative, center) ==
    [i \in 1..Len(pattern) |->
        [pattern[i] EXCEPT !.location =
            Loc(center.x + pattern[i].location.x + relative.x,
                center.x + pattern[i].location.y + relative.y)]]

mirrorNegatesYAlways(pattern, axis, center) ==
    LET flip == IF axis = "x" THEN 1 ELSE -1
    IN  [i \in 1..Len(pattern) |->
            [pattern[i] EXCEPT !.location =
                Loc(flip * pattern[i].location.x, -1 * pattern[i].location.y)]]

mirror(pattern, axis, center) ==
    LET flip == IF axis = "x" THEN 1 ELSE -1
    IN  [i \in 1..Len(pattern) |->
            [pattern[i] EXCEPT !.location =
                Loc(flip * pattern[i].location.x,
                    -1 * flip * pattern[i].location.y)]]

rot90(flip, center, L) ==
    Loc(flip * (L.y - center.y), -1 * flip * (L.x - center.x))

nrot90(flip, center, L) ==
    Loc(-1 * flip * (L.y - center.y), flip * (L.x - center.x))

rot180(L) == Loc(-L.y, -L.x)

rotateLocation(location, rotation) ==
    LET flip == IF rotation.direction = "clockwise" THEN 1 ELSE -1
    IN  CASE rotation.value \in {90, -270} ->
                Returned(rot90(flip, rotation.center, location))
          [] rotation.value \in {-90, 270} ->
                Returned(nrot90(flip, rotation.center, location))
          [] rotation.value = 180 -> Returned(rot180(location))
          [] OTHER -> Threw

\* rotate(pattern, value, direction)(center): the map throws as soon as
\* rotateLocation throws for a cell.
rotate(pattern, value, direction, center) ==
    LET rotation == [value |-> value, direction |-> direction, center |-> center]
        located == [i \in 1..Len(pattern) |->
                      rotateLocation(pattern[i].location, rotation)]
    IN  IF \E i \in 1..Len(pattern) : located[i].threw
        THEN Threw
        ELSE Returned([i \in 1..Len(pattern) |->
                         [pattern[i] EXCEPT !.location = located[i].value]])

\* Array.prototype.reverse
reverse(cells) == [i \in 1..Len(cells) |-> cells[Len(cells) + 1 - i]]

\* compose(...patterns): flatMap, then uniqueCells of the reversed list
compose(patterns) == uniqueCells(reverse(flatten(patterns)))

----------------------------------------------------------------------------
(* Initial cell lists.                                                     *)

\* the living and dead cells of the 2 x 2 block at the origin
SmallCells ==
    [location : {Loc(x, y) : x \in 0..1, y \in 0..1},
     state : {"alive", "dead"}]

\* every list of at most MaxCells cells of the block, in any order,
\* duplicate locations and dead cells included
ArbitraryLists == UNION {[1..n -> SmallCells] : n \in 0..MaxCells}

StripCell(i) == Alive((i - 1) % DenseW, (i - 1) \div DenseW)

\* every set of living cells inside a two-row strip, listed row by row
StripLists ==
    {SelectSeq([i \in 1..(2 * DenseW) |-> StripCell(i)],
               LAMBDA c : c.location \in S) :
        S \in SUBSET {StripCell(i).location : i \in 1..(2 * DenseW)}}

NamedPatterns == {first, blinker2(Origin), glider(Origin)}

LongRunPatterns == {blinker2(Origin), glider(Origin)}

InitialCellLists == ArbitraryLists \cup StripLists \cup NamedPatterns

TickBound(cells) == IF cells \in LongRunPatterns THEN 4 * MaxPeriods ELSE MaxTicks

----------------------------------------------------------------------------
(* The driver: useGameOfLife's world state and its next() callback.        *)

\* no pattern helper has been called
NoCall == [fn |-> "none"]

\* the closure of a timer callback: the isRunning and world of the render
\* whose effect scheduled it
Closure(running, w) == [isRunning |-> running, world |-> w]

\* The effect of part_000 after a render whose isRunning or world changed:
\* the cleanup of the previous effect clears the timer it had scheduled (the
\* newest pending one, when the previous render was running), then a timer
\* is scheduled if the new render is running.
Clears(pending, wasRunning) == wasRunning /\ pending # << >>

useEffectWithoutCleanup(pending, wasRunning, running, w) ==
    IF running THEN Append(pending, Closure(running, w)) ELSE pending

useEffect(pending, wasRunning, running, w) ==
    LET kept == IF Clears(pending, wasRunning)
                THEN SubSeq(pending, 1, Len(pending) - 1)
                ELSE pending
    IN  IF running THEN Append(kept, Closure(running, w)) ELSE kept

Op(name, cleared) == [name |-> name, cleared |-> cleared]

\* useGameOfLife with the given initial list, before any event
HookInit(lists) ==
    /\ initial \in lists
    /\ world = [time |-> 0, cells |-> initial]
    /\ currentWorld = world
    /\ calls = 0
    /\ isRunning = FALSE
    /\ op = Op("init", FALSE)
    /\ call = NoCall
    /\ ret = Returned(<< >>)

Init ==
    /\ HookInit(InitialCellLists)
    /\ timers = << >>

\* next(world): setWorld(tick(currentWorld)), then the re-render's effect
next ==
    /\ calls < TickBound(initial)
    /\ currentWorld' = world
    /\ world' = tick(world)
    /\ calls' = calls + 1
    /\ timers' = useEffect(timers, isRunning, isRunning, world')
    /\ op' = Op("next", Clears(timers, isRunning))
    /\ UNCHANGED <<initial, isRunning, call, ret>>

Next == next

Spec == Init /\ [][Next]_vars

----------------------------------------------------------------------------
(* useGameOfLife of part_000: the effect clears its timer on every         *)
(* re-render and schedules a new one only while running.  A handler, the   *)
(* re-render it causes and that render's effect are one step.              *)

\* the initial lists of the hooks, each run for MaxTicks calls
HookLists == StripLists \cup {first}

HookStart ==
    /\ HookInit(HookLists)
    /\ timers = << >>

\* start: setIsRunning(true); no re-render when already running
start ==
    /\ isRunning' = TRUE
    /\ timers' = IF isRunning THEN timers ELSE useEffect(timers, FALSE, TRUE, world)
    /\ op' = Op("start", FALSE)
    /\ UNCHANGED <<initial, world, currentWorld, calls, call, ret>>

stopKeepsTimer ==
    /\ isRunning' = FALSE
    /\ op' = Op("stop", FALSE)
    /\ UNCHANGED <<initial, world, currentWorld, calls, timers, call, ret>>

\* stop: setIsRunning(false); no re-render when already stopped
stop ==
    /\ isRunning' = FALSE
    /\ timers' = IF isRunning THEN useEffect(timers, TRUE, FALSE, world) ELSE timers
    /\ op' = Op("stop", Clears(timers, isRunning))
    /\ UNCHANGED <<initial, world, currentWorld, calls, call, ret>>

\* toggle: isRunning ? stop() : start()
toggle ==
    /\ isRunning' = ~isRunning
    /\ timers' = useEffect(timers, isRunning, ~isRunning, world)
    /\ op' = Op("toggle", Clears(timers, isRunning))
    /\ UNCHANGED <<initial, world, currentWorld, calls, call, ret>>

resetKeepsRunning ==
    /\ world' = [time |-> 0, cells |-> initial]
    /\ calls' = 0
    /\ timers' = useEffect(timers, isRunning, isRunning, world')
    /\ op' = Op("reset", Clears(timers, isRunning))
    /\ UNCHANGED <<initial, isRunning, currentWorld, call, ret>>

\* reset: setIsRunning(false); setWorld({ time: 0, cells: initial })
reset ==
    /\ isRunning' = FALSE
    /\ world' = [time |-> 0, cells |-> initial]
    /\ calls' = 0
    /\ timers' = useEffect(timers, isRunning, FALSE, world')
    /\ op' = Op("reset", Clears(timers, isRunning))
    /\ UNCHANGED <<initial, currentWorld, call, ret>>

timerFiresWithoutRearming ==
    /\ timers # << >>
    /\ calls < TickBound(initial)
    /\ currentWorld' = Head(timers).world
    /\ world' = tick(Head(timers).world)
    /\ calls' = calls + 1
    /\ timers' = Tail(timers)
    /\ op' = Op("timer", FALSE)
    /\ UNCHANGED <<initial, isRunning, call, ret>>

\* the oldest pending timer fires: next(world) with the world of its
\* closure, then the re-render's effect (clearing the fired timer does
\* nothing)
timerFires ==
    /\ timers # << >>
    /\ calls < TickBound(initial)
    /\ currentWorld' = Head(timers).world
    /\ world' = tick(Head(timers).world)
    /\ calls' = calls + 1
    /\ timers' = useEffect(Tail(timers), isRunning, isRunning, world')
    /\ op' = Op("timer", Clears(Tail(timers), isRunning))
    /\ UNCHANGED <<initial, isRunning, call, ret>>

HookNext ==
    \/ start
    \/ stop
    \/ toggle
    \/ reset
    \/ next
    \/ timerFires

SpecHook == HookStart /\ [][HookNext]_vars

\* the enabling condition of timerFires: a timeout is pending
TimerDue == timers # << >> /\ calls < TickBound(initial)

\* a step in which a pending timeout's callback runs, told by what every
\* such step does to calls and op: the timerFires steps of HookNext, with
\* the same enabling condition
timerCallback ==
    /\ TimerDue
    /\ calls' = calls + 1
    /\ \E cleared \in BOOLEAN : op' = Op("timer", cleared)

\* a pending timeout fires after its delay unless it is cleared: weak
\* fairness of the timer callback
SpecHookFair == HookStart /\ [][HookNext]_vars /\ WF_<<calls, op>>(timerCallback)

----------------------------------------------------------------------------
(* useGameOfLife of App.tsx: the effect schedules a timeout after the      *)
(* mount and after every render whose isRunning or world changed, and      *)
(* returns no cleanup; the callback reads the isRunning and world of the   *)
(* render that scheduled it.  All timeouts have the same delay, so they    *)
(* fire in the order they were scheduled.                                  *)

AppLists == HookLists \cup {glider(Origin)}

\* the effect: setTimeout(() => { if (isRunning) next(world) }, 500)
useEffectApp(pending, running, w) == Append(pending, Closure(running, w))

\* the mount: the first render's effect has scheduled a timeout
AppStart ==
    /\ HookInit(AppLists)
    /\ timers = useEffectApp(<< >>, isRunning, world)

\* start: setIsRunning(true); no re-render when already running
startApp ==
    /\ Len(timers) < MaxTimers
    /\ isRunning' = TRUE
    /\ timers' = IF isRunning THEN timers ELSE useEffectApp(timers, TRUE, world)
    /\ op' = Op("start", FALSE)
    /\ UNCHANGED <<initial, world, currentWorld, calls, call, ret>>

\* stop: setIsRunning(false); no re-render when already stopped
stopApp ==
    /\ Len(timers) < MaxTimers
    /\ isRunning' = FALSE
    /\ timers' = IF isRunning THEN useEffectApp(timers, FALSE, world) ELSE timers
    /\ op' = Op("stop", FALSE)
    /\ UNCHANGED <<initial, world, currentWorld, calls, call, ret>>

\* toggle: isRunning ? stop() : start()
toggleApp ==
    /\ Len(timers) < MaxTimers
    /\ isRunning' = ~isRunning
    /\ timers' = useEffectApp(timers, ~isRunning, world)
    /\ op' = Op("toggle", FALSE)
    /\ UNCHANGED <<initial, world, currentWorld, calls, call, ret>>

\* reset: setIsRunning(false); setWorld({ time: 0, cells: initial })
resetApp ==
    /\ Len(timers) < MaxTimers
    /\ isRunning' = FALSE
    /\ world' = [time |-> 0, cells |-> initial]
    /\ timers' = useEffectApp(timers, FALSE, world')
    /\ op' = Op("reset", FALSE)
    /\ UNCHANGED <<initial, currentWorld, calls, call, ret>>

\* the NEXT button: next(world) with the rendered world
nextApp ==
    /\ Len(timers) < MaxTimers
    /\ calls < TickBound(initial)
    /\ currentWorld' = world
    /\ world' = tick(world)
    /\ calls' = calls + 1
    /\ timers' = useEffectApp(timers, isRunning, world')
    /\ op' = Op("next", FALSE)
    /\ UNCHANGED <<initial, isRunning, call, ret>>

\* the oldest timeout fires: if the isRunning of its closure is true it
\* calls next with the world of its closure and the re-render's effect
\* schedules a timeout; otherwise it does nothing
timerFiresApp ==
    /\ timers # << >>
    /\ IF Head(timers).isRunning
       THEN /\ calls < TickBound(initial)
            /\ currentWorld' = Head(timers).world
            /\ world' = tick(Head(timers).world)
            /\ calls' = calls + 1
            /\ timers' = useEffectApp(Tail(timers), isRunning, world')
            /\ op' = Op("timer", FALSE)
       ELSE /\ timers' = Tail(timers)
            /\ op' = Op("timerSkips", FALSE)
            /\ UNCHANGED <<world, currentWorld, calls>>
    /\ UNCHANGED <<initial, isRunning, call, ret>>

AppNext ==
    \/ startApp
    \/ stopApp
    \/ toggleApp
    \/ resetApp
    \/ nextApp
    \/ timerFiresApp

SpecApp == AppStart /\ [][AppNext]_vars

----------------------------------------------------------------------------
(* The pattern helpers applied to enumerated arguments, one call (and its  *)
(* repetitions) per behaviour.                                             *)

Offsets == {Loc(x, y) : x \in -MaxOffset..MaxOffset, y \in -MaxOffset..MaxOffset}

\* the patterns handed to translate, mirror and rotate
HelperPatterns == NamedPatterns \cup {l \in ArbitraryLists : Len(l) <= 2}

\* the patterns handed to compose: living and dead cells at two locations
ComposeCells == [location : {Loc(0, 0), Loc(1, 0)}, state : {"alive", "dead"}]

ComposePatterns == UNION {[1..n -> ComposeCells] : n \in 0..2}

ComposeInputs == UNION {[1..n -> ComposePatterns] : n \in 0..MaxPatterns}

\* the six values of RotationValue and three values outside it
RotationInputs == {90, 180, 270, -90, -180, -270, 0, 45, 360}

Directions == {"clockwise", "counterclockwise"}

PatternsInit ==
    /\ HookInit({first})
    /\ timers = << >>

hookState == <<initial, world, currentWorld, calls, isRunning, timers, op>>

CallCompose ==
    /\ call = NoCall
    /\ \E patterns \in ComposeInputs :
          /\ call' = [fn |-> "compose", patterns |-> patterns]
          /\ ret' = Returned(compose(patterns))
    /\ UNCHANGED hookState

CallTranslate ==
    /\ call = NoCall
    /\ \E pattern \in HelperPatterns, relative \in Offsets, center \in Offsets :
          /\ call' = [fn |-> "translate", pattern |-> pattern,
                       relative |-> relative, center |-> center]
          /\ ret' = Returned(translate(pattern, relative, center))
    /\ UNCHANGED hookState

CallMirror ==
    /\ call = NoCall
    /\ \E pattern \in HelperPatterns, axis \in {"x", "y"}, center \in Offsets :
          /\ call' = [fn |-> "mirror", pattern |-> pattern, axis |-> axis,
                       center |-> center, times |-> 1]
          /\ ret' = Returned(mirror(pattern, axis, center))
    /\ UNCHANGED hookState

\* mirror(mirror(pattern, axis), axis)(center)
CallMirrorAgain ==
    /\ call.fn = "mirror"
    /\ call.times < 2
    /\ call' = [call EXCEPT !.times = @ + 1]
    /\ ret' = Returned(mirror(ret.value, call.axis, call.center))
    /\ UNCHANGED hookState

CallRotate ==
    /\ call = NoCall
    /\ \E pattern \in HelperPatterns, value \in RotationInputs,
          direction \in Directions, center \in Offsets :
          /\ call' = [fn |-> "rotate", pattern |-> pattern, value |-> value,
                       direction |-> direction, center |-> center, times |-> 1]
          /\ ret' = rotate(pattern, value, direction, center)
    /\ UNCHANGED hookState

\* rotate(rotate(pattern, value, direction), value, direction)(center)
CallRotateAgain ==
    /\ call.fn = "rotate"
    /\ call.times < 4
    /\ ~ret.threw
    /\ call' = [call EXCEPT !.times = @ + 1]
    /\ ret' = rotate(ret.value, call.value, call.direction, call.center)
    /\ UNCHANGED hookState

CallRotateLocation ==
    /\ call = NoCall
    /\ \E location \in Offsets, value \in RotationInputs,
          direction \in Directions, center \in Offsets :
          /\ call' = [fn |-> "rotateLocation", location |-> location,
                       value |-> value, direction |-> direction, center |-> center]
          /\ ret' = rotateLocation(location,
                        [value |-> value, direction |-> direction, center |-> center])
    /\ UNCHANGED hookState

PatternsNext ==
    \/ CallCompose
    \/ CallTranslate
    \/ CallMirror
    \/ CallMirrorAgain
    \/ CallRotate
    \/ CallRotateAgain
    \/ CallRotateLocation

SpecPatterns == PatternsInit /\ [][PatternsNext]_vars

----------------------------------------------------------------------------
(* Vocabulary of the properties, defined on sets of locations and          *)
(* independently of the query functions above.                             *)

Range(seq) == {seq[i] : i \in 1..Len(seq)}

\* at most one cell per location
NoDup(cells) ==
    \A i, j \in 1..Len(cells) : cells[i].location = cells[j].location => i = j

TrackedLocs(w) == {c.location : c \in Range(w.cells)}

AliveLocs(w) == {c.location : c \in {d \in Range(w.cells) : d.state = "alive"}}

Moore(L) ==
    {Loc(L.x + dx, L.y + dy) : dx \in {-1, 0, 1}, dy \in {-1, 0, 1}} \ {L}

LivingCount(w, L) == Cardinality(Moore(L) \cap AliveLocs(w))

\* Conway's rule for location L of world w
ConwayAlive(w, L) ==
    \/ L \in AliveLocs(w) /\ LivingCount(w, L) \in {2, 3}
    \/ L \notin AliveLocs(w) /\ LivingCount(w, L) = 3

\* living cells plus the neighbours of living cells
CandidateLocs(w) == AliveLocs(w) \cup UNION {Moore(L) : L \in AliveLocs(w)}

SetMin(S) == CHOOSE m \in S : \A n \in S : m <= n

SetMax(S) == CHOOSE m \in S : \A n \in S : m >= n

\* the tracked cells' bounding box widened by two, a region that holds
\* every candidate and a ring of locations outside the candidate set
Box(w) ==
    LET xs == {L.x : L \in TrackedLocs(w)} \cup {0}
        ys == {L.y : L \in TrackedLocs(w)} \cup {0}
    IN  {Loc(x, y) : x \in (SetMin(xs) - 2)..(SetMax(xs) + 2),
                     y \in (SetMin(ys) - 2)..(SetMax(ys) + 2)}

Shift(locs, dx, dy) == {Loc(L.x + dx, L.y + dy) : L \in locs}

----------------------------------------------------------------------------
\* C1: for a world w without duplicate locations and every location L of
\* the region, getCell(tick(w), L) is alive exactly when Conway's rule says
\* so for w, and every location outside the candidate set is dead in tick(w).
C1_TickIsConway ==
    (calls > 0 /\ NoDup(currentWorld.cells)) =>
        \A L \in Box(currentWorld) :
            /\ isAlive(getCell(world, L)) <=> ConwayAlive(currentWorld, L)
            /\ L \notin CandidateLocs(currentWorld) => getCell(world, L).state = "dead"

\* a tick of a duplicate-free world in which a living cell with four or
\* more living neighbours died, a living cell survived and a dead cell
\* with three living neighbours was born
C1_Witness ==
    /\ calls > 0
    /\ NoDup(currentWorld.cells)
    /\ \E L \in AliveLocs(currentWorld) :
          LivingCount(currentWorld, L) >= 4 /\ L \notin AliveLocs(world)
    /\ \E L \in AliveLocs(currentWorld) : L \in AliveLocs(world)
    /\ \E L \in AliveLocs(world) : L \notin AliveLocs(currentWorld)

\* C2: tick(w).time = w.time + 1, and after n next() calls from the
\* initial world (time 0) the generation counter is exactly n.
C2_TimeCountsTicks ==
    /\ world.time = calls
    /\ calls > 0 => world.time = currentWorld.time + 1

C2_Witness == calls = MaxTicks /\ currentWorld.time = MaxTicks - 1 /\ world.time = MaxTicks

\* C3: getCell returns the tracked cell at L (the first one listed there,
\* with its stored state) when the list holds one, and otherwise a dead cell
\* whose location is L.
C3_GetCell ==
    \A L \in Box(world) :
        LET at == {i \in 1..Len(world.cells) : world.cells[i].location = L}
        IN  IF at = {}
            THEN getCell(world, L) = [location |-> L, state |-> "dead"]
            ELSE getCell(world, L) = world.cells[SetMin(at)]

\* a world that tracks a living cell and a dead cell, and lists one
\* location twice with different states
C3_Witness ==
    /\ \E c \in Range(world.cells) : c.state = "alive"
    /\ \E c \in Range(world.cells) : c.state = "dead"
    /\ \E i, j \in 1..Len(world.cells) :
          /\ i < j
          /\ world.cells[i].location = world.cells[j].location
          /\ world.cells[i].state # world.cells[j].state

\* C4: getCellNeighbors of a cell at L returns exactly 8 cells, one for each
\* of the 8 Moore locations of L, each equal to getCell there, the centre
\* excluded; and in a world whose only living cell is at (0,0) each of the 8
\* neighbour locations has exactly 1 living neighbour.
C4_Neighbors ==
    /\ \A L \in Box(world) :
          LET ns == getCellNeighbors(world, getCell(world, L))
          IN  /\ Len(ns) = 8
              /\ {ns[i].location : i \in 1..Len(ns)} = Moore(L)
              /\ \A i \in 1..Len(ns) : ns[i] = getCell(world, ns[i].location)
    /\ (NoDup(world.cells) /\ AliveLocs(world) = {Origin}) =>
          \A L \in Moore(Origin) :
              Len(getLivingCellNeighbors(world, getCell(world, L))) = 1

\* a duplicate-free world whose only living cell is at (0,0), beside a
\* tracked dead cell
C4_Witness ==
    /\ NoDup(world.cells)
    /\ AliveLocs(world) = {Origin}
    /\ TrackedLocs(world) # {Origin}

\* C5: from an initial list without duplicate locations, every world
\* reached by ticking has at most one cell per location.
C5_NoDuplicateLocations == NoDup(initial) => NoDup(world.cells)

\* a second or later tick from a duplicate-free list: the ticked world
\* tracks dead cells and has living cells whose dead neighbours overlap
C5_Witness ==
    /\ NoDup(initial)
    /\ calls >= 2
    /\ TrackedLocs(currentWorld) # AliveLocs(currentWorld)
    /\ Cardinality(AliveLocs(currentWorld)) >= 2
    /\ Len(world.cells) < 9 * Cardinality(AliveLocs(currentWorld))
    /\ AliveLocs(world) # {}

\* the dead candidates of w whose living-neighbour count is not 3
DeadCandidatesNotBorn(w) ==
    {c \in Range(getDeadNeighborsOfLivingCells(w)) :
        Len(getLivingCellNeighbors(w, c)) # 3}

\* C6 as stated: a dead candidate whose living-neighbour count is not 3 has
\* no entry in the next world's cell collection.
C6_Original ==
    calls > 0 =>
        \A c \in DeadCandidatesNotBorn(currentWorld) :
            c.location \notin TrackedLocs(world)

\* C6 amended: a dead candidate whose living-neighbour count is not 3 stays
\* dead and is kept in the next world's cell collection as that same dead
\* cell; in a world without duplicate locations getCell returns it.
C6_DeadCandidateKeptDead ==
    calls > 0 =>
        \A c \in DeadCandidatesNotBorn(currentWorld) :
            /\ c.state = "dead"
            /\ c \in Range(world.cells)
            /\ \A d \in Range(world.cells) :
                  (d.location = c.location /\ d.state = "alive") =>
                      ~NoDup(currentWorld.cells)
            /\ NoDup(currentWorld.cells) => getCell(world, c.location) = c

\* a tick with a dead candidate of fewer than 3 and one of more than 3
\* living neighbours
C6_Witness ==
    /\ calls > 0
    /\ NoDup(currentWorld.cells)
    /\ \E c \in DeadCandidatesNotBorn(currentWorld) :
          Len(getLivingCellNeighbors(currentWorld, c)) < 3
    /\ \E c \in DeadCandidatesNotBorn(currentWorld) :
          Len(getLivingCellNeighbors(currentWorld, c)) > 3

\* C7: the tick of a world with no living cells, whatever dead cells it
\* tracks, has no living cells and time + 1; so no living cell ever
\* appears again.
C7_EmptyStaysEmpty ==
    [][AliveLocs(world) = {} =>
          (AliveLocs(world') = {} /\ world'.time = world.time + 1)]_vars

\* a world of tracked dead cells only has been ticked
C7_Witness ==
    /\ calls > 0
    /\ currentWorld.cells # << >>
    /\ AliveLocs(currentWorld) = {}
    /\ AliveLocs(world) = {}

BlinkerHorizontal == {Loc(-1, 0), Loc(0, 0), Loc(1, 0)}

BlinkerVertical == {Loc(0, -1), Loc(0, 0), Loc(0, 1)}

\* C8: from the blinker (-1,0),(0,0),(1,0) the living set is
\* {(0,-1),(0,0),(0,1)} after every odd number of ticks and
\* {(-1,0),(0,0),(1,0)} after every even number.
C8_BlinkerPeriod2 ==
    initial = blinker2(Origin) =>
        /\ AliveLocs(world) =
              IF calls % 2 = 0 THEN BlinkerHorizontal ELSE BlinkerVertical
        /\ \A L \in Box(world) : isAlive(getCell(world, L)) <=> L \in AliveLocs(world)

\* the blinker back in its horizontal phase after two ticks
C8_Witness ==
    /\ initial = blinker2(Origin)
    /\ calls = 2
    /\ AliveLocs(currentWorld) = BlinkerVertical
    /\ AliveLocs(world) = BlinkerHorizontal

GliderLocs == {Loc(-1, 0), Loc(0, 0), Loc(1, 0), Loc(1, 1), Loc(0, 2)}

\* C9: from the glider, after 4k ticks the living set is the original set
\* shifted by (+k, -k).
C9_GliderTranslation ==
    (initial = glider(Origin) /\ calls % 4 = 0) =>
        /\ AliveLocs(world) = Shift(GliderLocs, calls \div 4, -(calls \div 4))
        /\ \A L \in Box(world) : isAlive(getCell(world, L)) <=> L \in AliveLocs(world)

\* the glider after its second period
C9_Witness ==
    /\ initial = glider(Origin)
    /\ calls = 8
    /\ AliveLocs(world) = Shift(GliderLocs, 2, -2)

----------------------------------------------------------------------------
(* Properties of the pattern helpers.                                      *)

Locations(cells) == [i \in 1..Len(cells) |-> cells[i].location]

States(cells) == [i \in 1..Len(cells) |-> cells[i].state]

\* C11: compose returns at most one cell per location, covering exactly
\* the locations the patterns produce, and where two produced cells share a
\* location the one later in the input order is the one kept.
C11_ComposeLastWins ==
    call.fn = "compose" =>
        LET produced == flatten(call.patterns)
        IN  /\ NoDup(ret.value)
            /\ {c.location : c \in Range(ret.value)} =
                  {c.location : c \in Range(produced)}
            /\ \A c \in Range(ret.value) :
                  c = produced[SetMax({i \in 1..Len(produced) :
                                        produced[i].location = c.location})]

\* C12: translate(pattern, relative)(c) returns the cells of pattern() in
\* the same order and with the same states, each at
\* (c.x + cell.x + relative.x, c.y + cell.y + relative.y).
C12_TranslateShifts ==
    call.fn = "translate" =>
        /\ Len(ret.value) = Len(call.pattern)
        /\ States(ret.value) = States(call.pattern)
        /\ \A i \in 1..Len(call.pattern) :
              ret.value[i].location =
                  Loc(call.center.x + call.pattern[i].location.x + call.relative.x,
                      call.center.y + call.pattern[i].location.y + call.relative.y)

Negated(locations) ==
    [i \in 1..Len(locations) |-> Loc(-locations[i].x, -locations[i].y)]

\* C13: for either direction and centre (0,0), rotating by 90 twice gives
\* the locations of rotating by 180, namely every (x,y) at (-x,-y), and
\* rotating by 90 four times gives back the original locations.
C13_RotateIsRotation ==
    (call.fn = "rotate" /\ call.value = 90 /\ call.center = Origin) =>
        /\ call.times = 2 =>
              /\ Locations(ret.value) = Negated(Locations(call.pattern))
              /\ Locations(ret.value) =
                    Locations(rotate(call.pattern, 180, call.direction, Origin).value)
        /\ call.times = 4 => Locations(ret.value) = Locations(call.pattern)

\* C14: rotateLocation throws exactly when the rotation value is not one
\* of 90, -90, 180, -180, 270, -270.
C14_RotateLocationThrows ==
    call.fn = "rotateLocation" =>
        (ret.threw <=> call.value \notin {90, -90, 180, -180, 270, -270})

\* C15: mirror(pattern, "x")() negates exactly the y coordinate of every
\* cell and mirror(pattern, "y")() exactly the x coordinate, the states and
\* the order kept; mirroring twice gives back the original cell locations.
C15_MirrorReflects ==
    call.fn = "mirror" =>
        /\ States(ret.value) = States(call.pattern)
        /\ call.times = 1 =>
              Locations(ret.value) =
                  [i \in 1..Len(call.pattern) |->
                      IF call.axis = "x"
                      THEN Loc(call.pattern[i].location.x, -call.pattern[i].location.y)
                      ELSE Loc(-call.pattern[i].location.x, call.pattern[i].location.y)]
        /\ call.times = 2 => Locations(ret.value) = Locations(call.pattern)

\* a pattern with a dead cell off both axes mirrored twice across the y axis
C15_Witness ==
    /\ call.fn = "mirror"
    /\ call.axis = "y"
    /\ call.times = 2
    /\ \E c \in Range(call.pattern) :
          c.state = "dead" /\ c.location.x # 0 /\ c.location.y # 0
    /\ ret.value = call.pattern

----------------------------------------------------------------------------
(* Properties of the driving loop.                                         *)

\* once stopped, no timer fires and only NEXT or reset change the world
StoppedWorldStays ==
    ~isRunning => /\ op'.name # "timer"
                  /\ world' = world \/ op'.name \in {"next", "reset"}

C18_ResetRestoresInitial ==
    op.name = "reset" =>
        /\ ~isRunning
        /\ world = [time |-> 0, cells |-> initial]
        /\ initial \in HookLists

\* a reset of a running loop at a later generation
C18_Witness ==
    /\ op.name = "reset"
    /\ op.cleared
    /\ currentWorld.time >= 2
    /\ world.time = 0

C20_RunningLoopAdvances ==
    \A n \in 0..(MaxTicks - 1) :
        (isRunning /\ world.time = n /\ calls < TickBound(initial))
            ~> (~isRunning \/ world.time > n)

\* the running loop has been advanced by its timer to the last explored
\* generation
C20_Witness ==
    /\ isRunning
    /\ op.name = "timer"
    /\ calls = TickBound(initial)
    /\ world.time = TickBound(initial)

AppStoppedWorldStays ==
    ~isRunning => /\ op'.name # "timer"
                  /\ world' = world \/ op'.name \in {"next", "reset"}
                  /\ op.name = "reset" /\ op'.name \notin {"next", "start", "toggle"}
                        => world' = [time |-> 0, cells |-> initial]

\* C17: in App.tsx's hook, once isRunning is false no timer callback calls
\* tick and the world stays unchanged until NEXT, reset or start; after a
\* reset the world stays at time 0 with the initial cells.
C17_StaleTimerNeverTicks == [][AppStoppedWorldStays]_vars

====
